---- MODULE Spec2Model ----
(***************************************************************************)
(* Model of src/r2.py, a Streamlit application.  Streamlit re-executes the *)
(* whole script for every user interaction of a browser session: the       *)
(* module level call load_model() (line 29), then main(), i.e. init_db(),  *)
(* the session-state initialisation, the content branch of the current     *)
(* page and the navigation buttons.  st.rerun() restarts the script at     *)
(* once, so one action below is one user interaction together with the     *)
(* rerun it triggers.  out is what the last script run displayed and       *)
(* detectorLog the label the Detector page gave each stored record.  The   *)
(* SQLite file and the model file survive a process restart; the           *)
(* st.cache_resource cache and the sessions do not.                        *)
(*                                                                         *)
(* Scores are in hundredths (0.55 is 55).  Timestamps are the rank of the  *)
(* ISO-8601 string of datetime.now() in string order; datetime.now() is    *)
(* the naive local wall clock, neither monotonic nor unique per call.      *)
(***************************************************************************)
EXTENDS Integers, Sequences, FiniteSets, TLC

\* ---- bounds ----
NumSessions == 2
MaxTime == 2
MaxPredictions == 2

\* ---- program constants ----
Threshold == 55

Sessions == 1..NumSessions
Usernames == {"alice", "bob"}
Passwords == {"secret1", "secret2"}
Emails == {"alice@example.com"}
Files == {"face.png"}
Times == 1..MaxTime
Scores == {Threshold - 1, Threshold, Threshold + 1}

None == 0

VARIABLES tables, users, predictions, initialised, session_state,
          modelFile, modelCache, out, detectorLog

vars == <<tables, users, predictions, initialised, session_state,
          modelFile, modelCache, out, detectorLog>>

\* ---- database schema ----
UsersColumns == {"id", "username", "password", "email"}
LegacyColumns == {"id", "user_id", "timestamp", "filename", "result"}
CurrentColumns == LegacyColumns \cup {"heatmap"}
NoTable == {}
NoColumn == <<"no column">>

RowIds(rows) == {r.id : r \in rows}

\* INTEGER PRIMARY KEY without AUTOINCREMENT: largest rowid plus one.
NextId(rows) ==
  IF rows = {} THEN 1 ELSE 1 + CHOOSE m \in RowIds(rows) : \A k \in RowIds(rows) : k <= m

\* A faulty init_db that drops the predictions table on every run.
init_dbAlwaysDrops(t, preds) ==
  [tables |-> [users |-> UsersColumns, predictions |-> CurrentColumns],
   predictions |-> {}]

\* init_db: create users if missing; recreate predictions when PRAGMA
\* table_info reports no heatmap column (missing table reports no column).
init_db(t, preds) ==
  IF "heatmap" \notin t.predictions
    THEN [tables |-> [users |-> UsersColumns, predictions |-> CurrentColumns],
          predictions |-> {}]
    ELSE [tables |-> [users |-> UsersColumns, predictions |-> t.predictions],
          predictions |-> preds]

\* hashlib.sha256(...).hexdigest(): collision free on the modelled inputs,
\* and never equal to a plain password.
hash_password(password) == <<"sha256", password>>

\* ---- model artifact ----
\* A faulty load_model whose body downloads without testing the file.
load_modelAlwaysDownloads(file, cache, dl_ok) ==
  IF cache
    THEN [file |-> file, cache |-> TRUE, downloaded |-> FALSE, ok |-> TRUE]
    ELSE [file |-> file \/ dl_ok, cache |-> file \/ dl_ok,
          downloaded |-> TRUE, ok |-> file \/ dl_ok]

\* load_model under st.cache_resource: a cached handle is returned without
\* running the body; the body downloads only when the file is absent and
\* then deserialises (joblib.load raises when the download left no file).
load_model(file, cache, dl_ok) ==
  IF cache
    THEN [file |-> file, cache |-> TRUE, downloaded |-> FALSE, ok |-> TRUE]
    ELSE IF file
      THEN [file |-> TRUE, cache |-> TRUE, downloaded |-> FALSE, ok |-> TRUE]
      ELSE [file |-> dl_ok, cache |-> dl_ok, downloaded |-> TRUE, ok |-> dl_ok]

\* ---- session state ----
InitialSession == [logged_in |-> FALSE, user_id |-> None, page |-> "Login"]

\* A faulty login that leaves the session on the Login page.
LoggedInWrongPage(uid) == [logged_in |-> TRUE, user_id |-> uid, page |-> "Login"]

\* lines 176-178
LoggedIn(uid) == [logged_in |-> TRUE, user_id |-> uid, page |-> "Detector"]

\* A faulty logout that keeps user_id.
LoggedOutKeepsUser(ss) == [logged_in |-> FALSE, user_id |-> ss.user_id, page |-> "Login"]

\* lines 274-276
LoggedOut(ss) == [logged_in |-> FALSE, user_id |-> None, page |-> "Login"]

\* A faulty signup that opens the Detector page without logging in.
AfterSignupPageDetector == "Detector"

\* line 200
AfterSignupPage == "Login"

\* ---- labels ----
\* line 230
DetectorStatus(prediction) ==
  IF prediction >= Threshold THEN "Deepfake Detected" ELSE "Real Image"

\* A faulty History label that excludes the threshold itself.
HistoryStatusStrict(result) == IF result > Threshold THEN "Deepfake" ELSE "Real"

\* line 254
HistoryStatus(result) == IF result >= Threshold THEN "Deepfake" ELSE "Real"

\* ---- users table ----
\* A users table without the UNIQUE constraint.
UniqueViolationNever(username) == FALSE

\* UNIQUE constraint on users.username
UniqueViolation(username) == \E u \in users : u.username = username

\* SELECT id, password FROM users WHERE username=? ; fetchone()
SelectUser(username) == {u \in users : u.username = username}

\* ---- predictions table ----
\* A faulty INSERT that binds the wrong value to user_id.
NewPredictionWrongUser(uid, now, f, prediction) ==
  [id |-> NextId(predictions), user_id |-> NextId(predictions), timestamp |-> now,
   filename |-> f, result |-> prediction, heatmap |-> <<"png", f>>]

\* the row of the INSERT at lines 224-225; the heatmap is the PNG encoding
\* of the colour map of the uploaded image.
NewPrediction(uid, now, f, prediction) ==
  [id |-> NextId(predictions), user_id |-> uid, timestamp |-> now,
   filename |-> f, result |-> prediction, heatmap |-> <<"png", f>>]

\* A faulty history query without the WHERE clause.
SelectHistoryAllUsers(uid) == predictions

\* ... FROM predictions WHERE user_id=?
SelectHistory(uid) == {r \in predictions : r.user_id = uid}

\* the orders in which the table scan may deliver a set of rows
ScanOrders(S) ==
  {q \in [1..Cardinality(S) -> S] : \A i, j \in 1..Cardinality(S) : i # j => q[i] # q[j]}

RECURSIVE InsertDesc(_, _)
InsertDesc(r, sorted) ==
  IF sorted = <<>> THEN <<r>>
  ELSE IF r.timestamp >= Head(sorted).timestamp THEN <<r>> \o sorted
  ELSE <<Head(sorted)>> \o InsertDesc(r, Tail(sorted))

\* ORDER BY timestamp DESC; rows with equal timestamps keep the scan order
RECURSIVE OrderByTimestampDesc(_)
OrderByTimestampDesc(q) ==
  IF q = <<>> THEN <<>> ELSE InsertDesc(Head(q), OrderByTimestampDesc(Tail(q)))

\* one expander of the History page
HistoryEntry(r) ==
  [id |-> r.id, timestamp |-> r.timestamp, filename |-> r.filename,
   result |-> r.result, status |-> HistoryStatus(r.result)]

\* ---- output of the last script run ----
Output(s, event, msg, shown) == [s |-> s, event |-> event, msg |-> msg, shown |-> shown]

\* the spinner text of load_model, and the uncaught exception of a failed load
Downloading == "Downloading model from Google Drive..."
LoadFailed == "load_model failed"

\* what the content area shows for session state ss (History runs the query)
Render(s, event, msg, ss) ==
  IF ss.page = "History" /\ ss.logged_in
    THEN \E q \in ScanOrders(SelectHistory(ss.user_id)) :
           out' = Output(s, event, msg,
                         [i \in 1..Len(q) |-> HistoryEntry(OrderByTimestampDesc(q)[i])])
    ELSE out' = Output(None, event, msg, <<>>)

\* ---- initial states ----
LegacyUser ==
  [id |-> 1, username |-> "alice", password |-> hash_password("secret1"),
   email |-> "alice@example.com"]
LegacyPrediction ==
  [id |-> 1, user_id |-> 1, timestamp |-> 1, filename |-> "face.png", result |-> Threshold,
   heatmap |-> NoColumn]

FreshDb ==
  /\ tables = [users |-> NoTable, predictions |-> NoTable]
  /\ users = {}
  /\ predictions = {}

LegacyDb ==
  /\ tables = [users |-> UsersColumns, predictions |-> LegacyColumns]
  /\ users = {LegacyUser}
  /\ predictions = {LegacyPrediction}

Init ==
  /\ FreshDb \/ LegacyDb
  /\ initialised = {}
  /\ session_state = [s \in Sessions |-> InitialSession]
  /\ modelFile = FALSE
  /\ modelCache = FALSE
  /\ out = Output(None, "start", "", <<>>)
  /\ detectorLog = {}

\* ---- script runs ----
\* main() up to the session-state initialisation; every run of an
\* initialised session finds the cached model.
MainRuns(s) ==
  /\ s \in initialised
  /\ modelCache
  /\ tables' = init_db(tables, predictions).tables
  /\ UNCHANGED <<initialised, modelFile, modelCache>>

\* first script run of a browser session
OpenSession(s) ==
  /\ s \notin initialised
  /\ \E dl_ok \in BOOLEAN :
       LET lm == load_model(modelFile, modelCache, dl_ok) IN
         /\ modelFile' = lm.file
         /\ modelCache' = lm.cache
         /\ IF lm.ok
              THEN /\ tables' = init_db(tables, predictions).tables
                   /\ predictions' = init_db(tables, predictions).predictions
                   /\ initialised' = initialised \cup {s}
                   /\ session_state' = [session_state EXCEPT ![s] = InitialSession]
                   /\ out' = Output(s, "open", IF lm.downloaded THEN Downloading ELSE "", <<>>)
              ELSE /\ out' = Output(s, "open", LoadFailed, <<>>)
                   /\ UNCHANGED <<tables, predictions, initialised, session_state>>
  /\ UNCHANGED <<users, detectorLog>>

\* login form, lines 164-183
LoginSubmit(s, username, password) ==
  /\ MainRuns(s)
  /\ session_state[s].page = "Login" /\ ~session_state[s].logged_in
  /\ predictions' = init_db(tables, predictions).predictions
  /\ IF \E u \in SelectUser(username) : u.password = hash_password(password)
       THEN \E u \in SelectUser(username) :
              /\ session_state' = [session_state EXCEPT ![s] = LoggedIn(u.id)]
              /\ out' = Output(s, "login", "Logged in successfully!", <<>>)
       ELSE /\ out' = Output(s, "login", "Invalid username or password", <<>>)
            /\ UNCHANGED session_state
  /\ UNCHANGED <<users, detectorLog>>

\* register form, lines 185-204
SignUpSubmit(s, username, email, password) ==
  /\ MainRuns(s)
  /\ session_state[s].page = "Sign Up" /\ ~session_state[s].logged_in
  /\ predictions' = init_db(tables, predictions).predictions
  /\ IF UniqueViolation(username)
       THEN /\ out' = Output(s, "signup", "Username already exists", <<>>)
            /\ UNCHANGED <<users, session_state>>
       ELSE /\ users' = users \cup {[id |-> NextId(users), username |-> username,
                                     password |-> hash_password(password),
                                     email |-> email]}
            /\ session_state' = [session_state EXCEPT ![s].page = AfterSignupPage]
            /\ out' = Output(s, "signup", "Account created successfully! Please login.", <<>>)
  /\ UNCHANGED detectorLog

\* "Analyze Image" on an uploaded file f; store_ok = FALSE is the INSERT
\* raising (database locked, disk full): the exception is not caught, so
\* the script run ends before anything is displayed.
Analyze(s, f, prediction, now, store_ok) ==
  /\ MainRuns(s)
  /\ session_state[s].page = "Detector" /\ session_state[s].logged_in
  /\ Cardinality(predictions) < MaxPredictions
  /\ IF store_ok
       THEN /\ predictions' = init_db(tables, predictions).predictions
                                \cup {NewPrediction(session_state[s].user_id, now, f, prediction)}
            /\ out' = Output(s, "analyze", "result",
                             <<[status |-> DetectorStatus(prediction), result |-> prediction]>>)
            /\ detectorLog' = detectorLog \cup
                 {[id |-> NextId(predictions), status |-> DetectorStatus(prediction)]}
       ELSE /\ predictions' = init_db(tables, predictions).predictions
            /\ out' = Output(s, "analyze", "insert failed", <<>>)
            /\ UNCHANGED detectorLog
  /\ UNCHANGED <<users, session_state>>

\* navigation buttons, lines 262-287
NavDetector(s) ==
  /\ MainRuns(s)
  /\ session_state[s].logged_in
  /\ predictions' = init_db(tables, predictions).predictions
  /\ session_state' = [session_state EXCEPT ![s].page = "Detector"]
  /\ Render(s, "nav", "", session_state'[s])
  /\ UNCHANGED <<users, detectorLog>>

NavHistory(s) ==
  /\ MainRuns(s)
  /\ session_state[s].logged_in
  /\ predictions' = init_db(tables, predictions).predictions
  /\ session_state' = [session_state EXCEPT ![s].page = "History"]
  /\ Render(s, "nav", "", session_state'[s])
  /\ UNCHANGED <<users, detectorLog>>

Logout(s) ==
  /\ MainRuns(s)
  /\ session_state[s].logged_in
  /\ predictions' = init_db(tables, predictions).predictions
  /\ session_state' = [session_state EXCEPT ![s] = LoggedOut(session_state[s])]
  /\ out' = Output(s, "logout", "Logged out successfully!", <<>>)
  /\ UNCHANGED <<users, detectorLog>>

NavLogin(s) ==
  /\ MainRuns(s)
  /\ ~session_state[s].logged_in
  /\ predictions' = init_db(tables, predictions).predictions
  /\ session_state' = [session_state EXCEPT ![s].page = "Login"]
  /\ out' = Output(None, "nav", "", <<>>)
  /\ UNCHANGED <<users, detectorLog>>

NavSignUp(s) ==
  /\ MainRuns(s)
  /\ ~session_state[s].logged_in
  /\ predictions' = init_db(tables, predictions).predictions
  /\ session_state' = [session_state EXCEPT ![s].page = "Sign Up"]
  /\ out' = Output(None, "nav", "", <<>>)
  /\ UNCHANGED <<users, detectorLog>>

\* the server process ends and starts again: the resource cache and every
\* session are gone, the files stay.
Restart ==
  /\ initialised # {}
  /\ initialised' = {}
  /\ session_state' = [s \in Sessions |-> InitialSession]
  /\ modelCache' = FALSE
  /\ out' = Output(None, "start", "", <<>>)
  /\ UNCHANGED <<tables, users, predictions, modelFile, detectorLog>>

Next ==
  \/ \E s \in Sessions : OpenSession(s)
  \/ \E s \in Sessions, u \in Usernames, p \in Passwords : LoginSubmit(s, u, p)
  \/ \E s \in Sessions, u \in Usernames, e \in Emails, p \in Passwords : SignUpSubmit(s, u, e, p)
  \/ \E s \in Sessions, f \in Files, x \in Scores, t \in Times, ok \in BOOLEAN :
       Analyze(s, f, x, t, ok)
  \/ \E s \in Sessions : NavDetector(s)
  \/ \E s \in Sessions : NavHistory(s)
  \/ \E s \in Sessions : Logout(s)
  \/ \E s \in Sessions : NavLogin(s)
  \/ \E s \in Sessions : NavSignUp(s)
  \/ Restart

Spec == Init /\ [][Next]_vars

\* Accounts and sessions: every operation but the analysis, all inputs.
NextAuth ==
  \/ \E s \in Sessions : OpenSession(s)
  \/ \E s \in Sessions, u \in Usernames, p \in Passwords : LoginSubmit(s, u, p)
  \/ \E s \in Sessions, u \in Usernames, e \in Emails, p \in Passwords : SignUpSubmit(s, u, e, p)
  \/ \E s \in Sessions : NavDetector(s)
  \/ \E s \in Sessions : NavHistory(s)
  \/ \E s \in Sessions : Logout(s)
  \/ \E s \in Sessions : NavLogin(s)
  \/ \E s \in Sessions : NavSignUp(s)
  \/ Restart

SpecAuth == Init /\ [][NextAuth]_vars

\* Stored analyses: every operation; every account is created with the same
\* password and every analysis scores exactly the threshold, the timestamps
\* vary.
NextHistory ==
  \/ \E s \in Sessions : OpenSession(s)
  \/ \E s \in Sessions, u \in Usernames, p \in Passwords : LoginSubmit(s, u, p)
  \/ \E s \in Sessions, u \in Usernames, e \in Emails : SignUpSubmit(s, u, e, "secret1")
  \/ \E s \in Sessions, f \in Files, t \in Times, ok \in BOOLEAN :
       Analyze(s, f, Threshold, t, ok)
  \/ \E s \in Sessions : NavDetector(s)
  \/ \E s \in Sessions : NavHistory(s)
  \/ \E s \in Sessions : Logout(s)
  \/ \E s \in Sessions : NavLogin(s)
  \/ \E s \in Sessions : NavSignUp(s)
  \/ Restart

SpecHistory == Init /\ [][NextHistory]_vars

\* Labels: every operation; every account is created with the same password
\* and every analysis carries the same timestamp, the scores vary.
NextLabel ==
  \/ \E s \in Sessions : OpenSession(s)
  \/ \E s \in Sessions, u \in Usernames, p \in Passwords : LoginSubmit(s, u, p)
  \/ \E s \in Sessions, u \in Usernames, e \in Emails : SignUpSubmit(s, u, e, "secret1")
  \/ \E s \in Sessions, f \in Files, x \in Scores, ok \in BOOLEAN :
       Analyze(s, f, x, 1, ok)
  \/ \E s \in Sessions : NavDetector(s)
  \/ \E s \in Sessions : NavHistory(s)
  \/ \E s \in Sessions : Logout(s)
  \/ \E s \in Sessions : NavLogin(s)
  \/ \E s \in Sessions : NavSignUp(s)
  \/ Restart

SpecLabel == Init /\ [][NextLabel]_vars

TypeOK ==
  /\ initialised \subseteq Sessions
  /\ \A s \in Sessions : session_state[s].page \in {"Login", "Sign Up", "Detector", "History"}
  /\ (initialised # {} => modelCache /\ modelFile)

\* ---- properties ----
MainRan(o) == o.event # "start" /\ o.msg # LoadFailed

HistoryShown ==
  /\ out.event = "nav"
  /\ out.s \in initialised
  /\ session_state[out.s].page = "History"

LabelClass(status) ==
  IF status \in {"Deepfake Detected", "Deepfake"} THEN "deepfake" ELSE "real"

\* C1: in every session, logged_in is true exactly when user_id is the id
\* of a row of the users table.
C1_LoggedInIffValidUser ==
  \A s \in initialised :
    session_state[s].logged_in <=> (\E u \in users : u.id = session_state[s].user_id)

C1_Witness ==
  /\ out.event = "logout"
  /\ \E s \in initialised : session_state[s].logged_in

\* C2 as stated: after a successful login and after a successful signup
\* the session's page is "Detector".
C2_SuccessMovesToDetector ==
  out.msg \in {"Logged in successfully!", "Account created successfully! Please login."}
    => session_state[out.s].page = "Detector"

\* C2 amended: a successful login leaves the session logged in on the
\* Detector page; a successful signup leaves it logged out on the Login page.
C2_LoginToDetectorSignupToLogin ==
  /\ out.msg = "Logged in successfully!"
       => session_state[out.s].page = "Detector" /\ session_state[out.s].logged_in
  /\ out.msg = "Account created successfully! Please login."
       => session_state[out.s].page = "Login" /\ ~session_state[out.s].logged_in

C2_Witness ==
  /\ out.msg = "Logged in successfully!"
  /\ session_state[out.s].user_id = 2

UsernamesUnique == \A u, v \in users : u.username = v.username => u = v

SignupOutcome(s, username, email, password) ==
  IF \E u \in users : u.username = username
    THEN /\ out'.msg = "Username already exists"
         /\ users' = users
         /\ session_state' = session_state
    ELSE /\ out'.msg = "Account created successfully! Please login."
         /\ users \subseteq users'
         /\ \E u \in users' :
              /\ users' \ users = {u}
              /\ u.username = username
              /\ u.password = hash_password(password)
              /\ u.email = email

\* C3: usernames stay unique; a signup with an unused username adds exactly
\* one row, a signup with a used one reports "Username already exists" and
\* changes neither the users table nor the session.
C3_SignupKeepsUsernamesUnique ==
  /\ []UsernamesUnique
  /\ [][\A s \in Sessions, username \in Usernames, email \in Emails, password \in Passwords :
          SignUpSubmit(s, username, email, password)
            => SignupOutcome(s, username, email, password)]_vars

C3_Witness ==
  /\ out.msg = "Username already exists"
  /\ Cardinality(users) = 2

ShownRowsAreOwnRows ==
  LET uid == session_state[out.s].user_id
      own == {r \in predictions : r.user_id = uid}
  IN /\ Len(out.shown) = Cardinality(own)
     /\ \A r \in own : \E i \in 1..Len(out.shown) : out.shown[i].id = r.id
     /\ \A i \in 1..Len(out.shown) : \E r \in own :
          /\ out.shown[i].id = r.id
          /\ out.shown[i].timestamp = r.timestamp
          /\ out.shown[i].filename = r.filename
          /\ out.shown[i].result = r.result

\* C4 as stated: the History page lists exactly the rows of the session's
\* user, in strictly descending timestamp order.
C4_HistoryStrictlyDescending ==
  HistoryShown =>
    /\ ShownRowsAreOwnRows
    /\ \A i, j \in 1..Len(out.shown) :
         i < j => out.shown[i].timestamp > out.shown[j].timestamp

\* C4 amended: the History page lists exactly the rows of the session's
\* user, in descending timestamp order where equal timestamps may follow
\* each other.
C4_HistoryDescending ==
  HistoryShown =>
    /\ ShownRowsAreOwnRows
    /\ \A i, j \in 1..Len(out.shown) :
         i < j => out.shown[i].timestamp >= out.shown[j].timestamp

C4_Witness ==
  /\ HistoryShown
  /\ Len(out.shown) = 2

SameStoredRow(r, r2) ==
  /\ r.id = r2.id
  /\ r.user_id = r2.user_id
  /\ r.timestamp = r2.timestamp
  /\ r.filename = r2.filename
  /\ r.result = r2.result

\* C5 as stated: every predictions row present before a script run (hence
\* before init_db) is still present after it.
C5_InitDbKeepsEveryRow ==
  [][\A r \in predictions : \E r2 \in predictions' : SameStoredRow(r, r2)]_vars

\* C5 amended: init_db keeps every predictions row when the table has the
\* heatmap column; when it lacks the column init_db drops the table with
\* all its rows and creates an empty table with the heatmap column.
C5_InitDbKeepsRowsOnlyWithHeatmapColumn ==
  [][IF "heatmap" \in tables.predictions
       THEN predictions \subseteq predictions'
       ELSE MainRan(out') =>
              /\ tables'.predictions = CurrentColumns
              /\ \A r \in predictions : \A r2 \in predictions' : ~SameStoredRow(r, r2)]_vars

C5_Witness ==
  /\ out.event = "open"
  /\ MainRan(out)
  /\ predictions # {}

\* C6: when the INSERT of an analysis record fails, the computed prediction
\* is still shown.
C6_StoreFailureStillShowsResult ==
  (out.event = "analyze" /\ out.msg = "insert failed") => Len(out.shown) = 1

PredictionsReferenceUsers ==
  \A r \in predictions : \E u \in users : u.id = r.user_id

\* C7: every predictions row references an existing user, and a new row
\* carries the id of the user logged in to the session that ran the analysis.
C7_PredictionsReferenceAnalysingUser ==
  /\ []PredictionsReferenceUsers
  /\ [][\A r \in predictions' \ predictions :
          /\ out'.event = "analyze"
          /\ session_state[out'.s].logged_in
          /\ r.user_id = session_state[out'.s].user_id]_vars

C7_Witness ==
  /\ out.event = "analyze"
  /\ out.msg = "result"
  /\ \E r \in predictions : r.user_id = 1
  /\ \E r \in predictions : r.user_id = 2

\* C8: load_model downloads only when the model file is absent; with the
\* file present a cache miss goes straight to deserialisation.
C8_NoDownloadWhenFilePresent ==
  [][/\ modelFile => out'.msg # Downloading
     /\ out'.msg = Downloading => ~modelFile /\ ~modelCache
     /\ (modelFile /\ ~modelCache /\ out'.event = "open") => modelCache']_vars

\* the model file was fetched by an earlier run, the process restarted, and
\* the first run of the new process loaded the model without a download
C8_Witness ==
  /\ out.event = "open"
  /\ out.msg = ""
  /\ initialised = {out.s}
  /\ modelFile /\ modelCache

\* C9: a score is labelled deepfake exactly from 0.55 upwards, on the
\* Detector page and on the History page alike, and the History page gives
\* a record the class the Detector page gave it.
C9_SameLabelEverywhere ==
  /\ (out.event = "analyze" /\ out.msg = "result") =>
       (LabelClass(out.shown[1].status) = "deepfake" <=> out.shown[1].result >= Threshold)
  /\ HistoryShown =>
       \A i \in 1..Len(out.shown) :
         /\ LabelClass(out.shown[i].status) = "deepfake" <=> out.shown[i].result >= Threshold
         /\ \E l \in detectorLog :
              /\ l.id = out.shown[i].id
              /\ LabelClass(l.status) = LabelClass(out.shown[i].status)

C9_Witness ==
  /\ HistoryShown
  /\ \E i \in 1..Len(out.shown) : out.shown[i].result = Threshold

\* C10: a session is logged in exactly on the Detector and History pages
\* and logged out exactly on the Login and Sign Up pages; analyses and
\* history listings happen only in logged-in sessions.
C10_PageMatchesLogin ==
  /\ \A s \in initialised :
       /\ session_state[s].logged_in <=> session_state[s].page \in {"Detector", "History"}
       /\ ~session_state[s].logged_in <=> session_state[s].page \in {"Login", "Sign Up"}
  /\ out.event = "analyze" => session_state[out.s].logged_in
  /\ out.shown # <<>> => session_state[out.s].logged_in

C10_Witness ==
  /\ \E s \in initialised : session_state[s].page = "Sign Up"
  /\ \E s \in initialised : session_state[s].page = "History"
====
